---- MODULE Spec2Model ----
(***************************************************************************)
(* A model of agentic.py: the location registry (time_diffs), the three    *)
(* tool functions, get_tools_info, the prompt composition, and the         *)
(* module-level driver that invokes the chat model twice.                  *)
(*                                                                         *)
(* Three specifications share the state:                                   *)
(*   Spec          the tool functions and get_tools_info applied to        *)
(*                 arguments drawn from bounded sets;                      *)
(*   DriverSpec    the module-level statements of lines 121-142;           *)
(*   LifetimeSpec  both, interleaved, over a sample of the arguments.      *)
(***************************************************************************)
EXTENDS Integers, Sequences, FiniteSets, TLC

VARIABLES
    time_diffs,            \* the registry dict, location -> offset in hours
    randDraws,             \* values consumed so far from the random source
    call,                  \* the last call of a tool function / get_tools_info
    pc,                    \* position of the module-level driver
    modelCalls,            \* requests received by the chat model, in order
    weather_without_tool,  \* line 122: response to the llm chain
    weather_with_tool,     \* line 133: response to the llm_with_tools chain
    printed                \* what pprint has written, in order

vars == <<time_diffs, randDraws, call, pc, modelCalls,
          weather_without_tool, weather_with_tool, printed>>

toolVars == <<time_diffs, randDraws, call>>
driverVars == <<pc, modelCalls, weather_without_tool, weather_with_tool, printed>>

None == "None"

(***************************************************************************)
(* Bounds of the model.                                                    *)
(***************************************************************************)
RandSteps == 16     \* random() is sampled on the grid k / RandSteps
MaxDraws == 1       \* at most this many values are drawn from the source
OffsetDen == 2      \* offsets and instants are multiples of 1/OffsetDen hour
OverHours == 1      \* offsets range up to OverHours beyond the timezone limit
MaxClock == 1       \* wall-clock readings range over 0 .. MaxClock hours
MaxTools == 2       \* longest tools_list given to get_tools_info
MaxToolCalls == 2   \* longest tool_calls sequence of a model response

(***************************************************************************)
(* Lines 12-25: Location and time_diffs.                                   *)
(***************************************************************************)
Location == {"Abuja", "Accra", "Cairo", "Dakar", "Gaborone", "Kigali",
             "Nairobi", "Praia", "Pretoria"}

InitialTimeDiffs ==
    [l \in Location |->
        CASE l = "Abuja"    -> 1
          [] l = "Accra"    -> 0
          [] l = "Cairo"    -> 2
          [] l = "Dakar"    -> 0
          [] l = "Gaborone" -> 2
          [] l = "Kigali"   -> 2
          [] l = "Nairobi"  -> 3
          [] l = "Praia"    -> -1
          [] l = "Pretoria" -> 2]

\* Location is a typing.Literal: nothing enforces it at a direct call, so a
\* caller may pass any string.
UnknownLocations == {"Lagos"}
LocationInputs == Location \cup UnknownLocations

TemperatureUnit == {"Celsius", "Fahrenheit"}

(***************************************************************************)
(* Lines 41-48: generate_temperature.                                      *)
(* random.uniform(a, b) is a + (b - a) * random(); the draw is the         *)
(* rational k / RandSteps, so the value is num / RandSteps.  round(x, 1)   *)
(* rounds the exact value to the nearest tenth, ties to the even tenth.    *)
(* Temperatures are held in tenths of a degree.                            *)
(***************************************************************************)
MinTemp == 8
MaxTemp == 45

Draws == 0 .. RandSteps

Round1(num, den) ==
    LET x10 == 10 * num
        q   == x10 \div den
        r   == x10 % den
    IN  IF 2 * r < den THEN q
        ELSE IF 2 * r > den THEN q + 1
        ELSE IF q % 2 = 0 THEN q ELSE q + 1

Uniform(a, b, k) == a * RandSteps + (b - a) * k     \* numerator over RandSteps

generate_temperature(min_temp, max_temp, k) ==
    Round1(Uniform(min_temp, max_temp, k), RandSteps)

\* str() of a float that holds a whole number of tenths: "8.0", "23.4"
FloatStr(tenths) == ToString(tenths \div 10) \o "." \o ToString(tenths % 10)

(***************************************************************************)
(* Lines 72-84: get_location_temperature.  args is the keyword mapping of  *)
(* the call; units defaults to "Celsius".  The result tells whether the    *)
(* call returned or raised, and how many random values it consumed.        *)
(***************************************************************************)
\* Values are tagged with their Python type; NoValue stands for "no value".
NoValue == [none |-> None]
Str(s) == [str |-> s]
Float(x) == [float |-> x]
Datetime(wall, utcoffset) == [datetime |-> [wall |-> wall, utcoffset |-> utcoffset]]
Dict(d) == [dict |-> d]

Raised(type, msg, consumed) ==
    [status |-> "raised", error |-> type, message |-> msg, ret |-> NoValue,
     consumed |-> consumed]

Returned(value, consumed) ==
    [status |-> "returned", error |-> None, message |-> None, ret |-> value,
     consumed |-> consumed]

UnitsOf(args) == IF "units" \in DOMAIN args THEN args.units ELSE "Celsius"

get_location_temperature_ignoring_units(args, k) ==
    IF args.location \notin DOMAIN time_diffs
    THEN Raised("ValueError", "Invalid location " \o args.location, 0)
    ELSE LET ambient_temperature == generate_temperature(MinTemp, MaxTemp, k)
         IN  Returned(Str("The temperature in " \o args.location \o " is: "
                        \o FloatStr(ambient_temperature) \o " Celsius"), 1)

get_location_temperature_converting(args, k) ==
    LET units == UnitsOf(args)
        c     == generate_temperature(MinTemp, MaxTemp, k)
        v     == IF units = "Fahrenheit" THEN Round1(9 * c + 1600, 50) ELSE c
    IN  IF args.location \notin DOMAIN time_diffs
        THEN Raised("ValueError", "Invalid location " \o args.location, 0)
        ELSE Returned(Str("The temperature in " \o args.location \o " is: "
                        \o FloatStr(v) \o " " \o units), 1)

get_location_temperature_draw_first(args, k) ==
    LET ambient_temperature == generate_temperature(MinTemp, MaxTemp, k)
    IN  IF args.location \notin DOMAIN time_diffs
        THEN Raised("ValueError", "Invalid location " \o args.location, 1)
        ELSE Returned(Str("The temperature in " \o args.location \o " is: "
                        \o FloatStr(ambient_temperature) \o " " \o UnitsOf(args)), 1)

get_location_temperature(args, k) ==
    IF args.location \notin DOMAIN time_diffs
    THEN Raised("ValueError", "Invalid location " \o args.location, 0)
    ELSE LET ambient_temperature == generate_temperature(MinTemp, MaxTemp, k)
         IN  Returned(Str("The temperature in " \o args.location \o " is: "
                        \o FloatStr(ambient_temperature) \o " " \o UnitsOf(args)), 1)

(***************************************************************************)
(* Lines 86-93: get_local_datetime.  Offsets and instants are counted in   *)
(* units of 1/OffsetDen hour.  timedelta(hours = h) is built for any       *)
(* finite h; datetime.timezone raises ValueError unless the offset lies    *)
(* strictly between -24 and 24 hours.  datetime.now(tz) reads the clock    *)
(* and returns the wall-clock reading of that instant at the offset.       *)
(***************************************************************************)
TzLimitHours == 24

OffsetInputs ==
    -((TzLimitHours + OverHours) * OffsetDen) .. (TzLimitHours + OverHours) * OffsetDen

ClockReadings == { h * OffsetDen : h \in 0 .. MaxClock }

get_local_datetime_subtracting(offset_from_utc, utcnow) ==
    IF offset_from_utc <= -(TzLimitHours * OffsetDen)
         \/ offset_from_utc >= TzLimitHours * OffsetDen
    THEN Raised("ValueError", "offset must be a timedelta strictly between", 0)
    ELSE Returned(Datetime(utcnow - offset_from_utc, offset_from_utc), 0)

get_local_datetime(offset_from_utc, utcnow) ==
    IF offset_from_utc <= -(TzLimitHours * OffsetDen)
         \/ offset_from_utc >= TzLimitHours * OffsetDen
    THEN Raised("ValueError", "offset must be a timedelta strictly between", 0)
    ELSE Returned(Datetime(utcnow + offset_from_utc, offset_from_utc), 0)

(***************************************************************************)
(* Lines 95-106: get_offset_from_utc.                                      *)
(***************************************************************************)
get_offset_from_utc_defaulting(location) ==
    IF location \notin DOMAIN time_diffs
    THEN Returned(Float(0), 0)
    ELSE Returned(Float(time_diffs[location]), 0)

get_offset_from_utc(location) ==
    IF location \notin DOMAIN time_diffs
    THEN Raised("ValueError", "Invalid location " \o location, 0)
    ELSE Returned(Float(time_diffs[location]), 0)

\* The registry after a lookup: `in` and [] on a dict add no key.
registry_after_lookup_inserting(location) ==
    IF location \in DOMAIN time_diffs
    THEN time_diffs
    ELSE [l \in DOMAIN time_diffs \cup {location} |->
            IF l = location THEN 0 ELSE time_diffs[l]]

registry_after_lookup(location) == time_diffs

(***************************************************************************)
(* Lines 50-61: get_tools_info.  A dict is the sequence of its <<key,      *)
(* value>> items in insertion order; d[key] = value replaces the value of  *)
(* a key already present, in place, and appends a new key otherwise.  A    *)
(* tool is [name, description].                                            *)
(***************************************************************************)
DictKeys(d) == [i \in 1 .. Len(d) |-> d[i][1]]

DictHas(d, key) == \E i \in 1 .. Len(d) : d[i][1] = key

DictGet(d, key) == d[CHOOSE i \in 1 .. Len(d) : d[i][1] = key][2]

DictSet(d, key, value) ==
    IF DictHas(d, key)
    THEN [i \in 1 .. Len(d) |-> IF d[i][1] = key THEN <<key, value>> ELSE d[i]]
    ELSE Append(d, <<key, value>>)

RECURSIVE tools_info_first_wins(_, _)
tools_info_first_wins(tools_info, rest) ==
    IF rest = <<>> THEN tools_info
    ELSE tools_info_first_wins(
            IF DictHas(tools_info, Head(rest).name) THEN tools_info
            ELSE Append(tools_info, <<Head(rest).name, Head(rest).description>>),
            Tail(rest))

RECURSIVE tools_info_loop(_, _)
tools_info_loop(tools_info, rest) ==
    IF rest = <<>> THEN tools_info
    ELSE tools_info_loop(DictSet(tools_info, Head(rest).name, Head(rest).description),
                         Tail(rest))

get_tools_info(tools_list) == Returned(Dict(tools_info_loop(<<>>, tools_list)), 0)

\* The loop only reads tools_list.
tools_list_after(tools_list) == tools_list

(***************************************************************************)
(* Lines 72-108: the three tools as @tool() declares them (name: the       *)
(* function's name; description: its docstring, held here by its first     *)
(* line), and available_tools.                                             *)
(***************************************************************************)
get_location_temperature_tool ==
    [name |-> "get_location_temperature",
     description |-> "Retrieve the temperature in a given African capital city"]

get_local_datetime_tool ==
    [name |-> "get_local_datetime",
     description |-> "Retrieve the current local datetime in a given timezone"]

get_offset_from_utc_tool ==
    [name |-> "get_offset_from_utc",
     description |-> "Get the time offset from UTC for the specified location"]

available_tools ==
    <<get_location_temperature_tool, get_local_datetime_tool, get_offset_from_utc_tool>>

\* Tools a caller of get_tools_info may pass: the declared ones, and one that
\* bears the name of a declared tool with another description.
ToolUniverse ==
    { available_tools[i] : i \in 1 .. Len(available_tools) }
      \cup { [name |-> "get_offset_from_utc", description |-> "Offset lookup, version 2"] }

SeqsUpTo(S, n) == UNION { [1 .. m -> S] : m \in 0 .. n }

ToolLists == SeqsUpTo(ToolUniverse, MaxTools) \cup {available_tools}

(***************************************************************************)
(* The calls of the tool functions and of get_tools_info, on arguments     *)
(* drawn from the given sets.                                              *)
(***************************************************************************)
TemperatureArgs(Locs) ==
    { [location |-> l] : l \in Locs }
      \cup { [location |-> l, units |-> u] : l \in Locs, u \in TemperatureUnit }

CallTemperature(Locs, Ks) ==
    \E args \in TemperatureArgs(Locs), k \in Ks :
        LET r == get_location_temperature(args, k) IN
        /\ randDraws + r.consumed <= MaxDraws
        /\ call' = [op |-> "get_location_temperature", args |-> args,
                    random |-> IF r.consumed > 0 THEN <<k>> ELSE <<>>,
                    clock |-> <<>>, tools_list_after |-> <<>>,
                    randBefore |-> randDraws, result |-> r]
        /\ randDraws' = randDraws + r.consumed
        /\ time_diffs' = registry_after_lookup(args.location)
        /\ UNCHANGED driverVars

CallLocalDatetime(Offsets, Clock) ==
    \E offset_from_utc \in Offsets, utcnow \in Clock :
        LET r == get_local_datetime(offset_from_utc, utcnow) IN
        /\ call' = [op |-> "get_local_datetime",
                    args |-> [offset_from_utc |-> offset_from_utc],
                    random |-> <<>>, clock |-> <<utcnow>>, tools_list_after |-> <<>>,
                    randBefore |-> randDraws, result |-> r]
        /\ UNCHANGED <<time_diffs, randDraws>>
        /\ UNCHANGED driverVars

CallOffsetFromUtc(Locs) ==
    \E location \in Locs :
        LET r == get_offset_from_utc(location) IN
        /\ call' = [op |-> "get_offset_from_utc", args |-> [location |-> location],
                    random |-> <<>>, clock |-> <<>>, tools_list_after |-> <<>>,
                    randBefore |-> randDraws, result |-> r]
        /\ time_diffs' = registry_after_lookup(location)
        /\ UNCHANGED randDraws
        /\ UNCHANGED driverVars

CallToolsInfo(Lists) ==
    \E tools_list \in Lists :
        LET r == get_tools_info(tools_list) IN
        /\ call' = [op |-> "get_tools_info", args |-> [tools_list |-> tools_list],
                    random |-> <<>>, clock |-> <<>>,
                    tools_list_after |-> tools_list_after(tools_list),
                    randBefore |-> randDraws, result |-> r]
        /\ UNCHANGED <<time_diffs, randDraws>>
        /\ UNCHANGED driverVars

NoCall == [op |-> "none", args |-> NoValue, random |-> <<>>, clock |-> <<>>,
           tools_list_after |-> <<>>, randBefore |-> 0,
           result |-> Returned(NoValue, 0)]

(***************************************************************************)
(* Lines 27-36 and 109-114: the prompt.  The system template is held by    *)
(* the text before and after its {tools} placeholder; the human message    *)
(* is the placeholder {input_prompt} alone.  json.dumps(d, indent = 4)     *)
(* writes one "key": "value" item per line, indented by four spaces.       *)
(***************************************************************************)
system_message_prompt_template ==
    <<"You're a helpful assistant. You have access to the following tools: ",
      " - Whenever the user asks for weather or time related information, ...">>

RECURSIVE JsonItems(_)
JsonItems(d) ==
    IF Len(d) = 1
    THEN "    \"" \o d[1][1] \o "\": \"" \o d[1][2] \o "\""
    ELSE "    \"" \o d[1][1] \o "\": \"" \o d[1][2] \o "\",\n" \o JsonItems(Tail(d))

JsonDumps(d) == IF d = <<>> THEN "{}" ELSE "{\n" \o JsonItems(d) \o "\n}"

prompt_template(input) ==
    << [role |-> "system",
        content |-> system_message_prompt_template[1] \o input.tools
                      \o system_message_prompt_template[2]],
       [role |-> "human", content |-> input.input_prompt] >>

(***************************************************************************)
(* Lines 115-118: llm, llm_with_tools and locale.  A runnable is held by   *)
(* the names of the tools bound to it.                                     *)
(***************************************************************************)
llm == <<>>

llm_with_tools == [i \in 1 .. Len(available_tools) |-> available_tools[i].name]

locale == "Praia"

(***************************************************************************)
(* Lines 122-141: the two invoke inputs, and what an exception raised by   *)
(* invoke does: nothing catches it, the interpreter exits.                 *)
(***************************************************************************)
without_tool_input_no_descriptors ==
    [input_prompt |-> "What's the current weather in " \o locale \o "?",
     tools |-> JsonDumps(get_tools_info(<<>>).ret.dict)]

without_tool_input ==
    [input_prompt |-> "What's the current weather in " \o locale \o "?",
     tools |-> JsonDumps(get_tools_info(available_tools).ret.dict)]

with_tool_input ==
    [input_prompt |-> "What's the current weather in " \o locale \o "?",
     tools |-> JsonDumps(get_tools_info(available_tools).ret.dict)]

on_invoke_error_caught(next) == next

on_invoke_error(next) == "crashed"

\* generate_prompt_to_runnable_chain(template, runnable).invoke(input): the
\* request the chat model receives.
ChainRequest(runnable, input) ==
    [messages |-> prompt_template(input), bound_tools |-> runnable]

(***************************************************************************)
(* The chat model: an AIMessage is [content, tool_calls].  Without bound   *)
(* tools it answers in text; with bound tools it answers in text or asks   *)
(* for tool calls.  Either call may raise instead.                         *)
(***************************************************************************)
Texts == {"I cannot access real-time weather.",
          "The weather in Praia is sunny.",
          "It is 25.0 Celsius in Praia.",
          ""}

ToolRequests ==
    { [name |-> "get_location_temperature", args |-> [location |-> "Praia"]],
      [name |-> "get_offset_from_utc", args |-> [location |-> "Praia"]],
      [name |-> "get_local_datetime", args |-> [offset_from_utc |-> -1]] }

TextResponses == { [content |-> t, tool_calls |-> <<>>] : t \in Texts }

ToolCallResponses ==
    { [content |-> "", tool_calls |-> s] :
        s \in SeqsUpTo(ToolRequests, MaxToolCalls) \ {<<>>} }

NoResponse == [content |-> None, tool_calls |-> <<>>]

(***************************************************************************)
(* The module-level statements, in order.                                  *)
(***************************************************************************)
InvokeWithoutTool(Resps) ==
    /\ pc = "invoke_without_tool"
    /\ \E resp \in Resps :
        /\ modelCalls' = Append(modelCalls,
              [request |-> ChainRequest(llm, without_tool_input),
               outcome |-> "response"])
        /\ weather_without_tool' = resp
        /\ pc' = "print_without_tool"
    /\ UNCHANGED <<weather_with_tool, printed>>
    /\ UNCHANGED toolVars

InvokeWithoutToolRaises ==
    /\ pc = "invoke_without_tool"
    /\ modelCalls' = Append(modelCalls,
          [request |-> ChainRequest(llm, without_tool_input),
           outcome |-> "error"])
    /\ pc' = on_invoke_error("print_without_tool")
    /\ UNCHANGED <<weather_without_tool, weather_with_tool, printed>>
    /\ UNCHANGED toolVars

PrintWithoutTool ==
    /\ pc = "print_without_tool"
    /\ printed' = Append(printed,
          [label |-> "Response to weather query without tool:",
           response |-> weather_without_tool])
    /\ pc' = "invoke_with_tool"
    /\ UNCHANGED <<modelCalls, weather_without_tool, weather_with_tool>>
    /\ UNCHANGED toolVars

InvokeWithTool(Resps) ==
    /\ pc = "invoke_with_tool"
    /\ \E resp \in Resps :
        /\ modelCalls' = Append(modelCalls,
              [request |-> ChainRequest(llm_with_tools, with_tool_input),
               outcome |-> "response"])
        /\ weather_with_tool' = resp
        /\ pc' = "print_with_tool"
    /\ UNCHANGED <<weather_without_tool, printed>>
    /\ UNCHANGED toolVars

InvokeWithToolRaises ==
    /\ pc = "invoke_with_tool"
    /\ modelCalls' = Append(modelCalls,
          [request |-> ChainRequest(llm_with_tools, with_tool_input),
           outcome |-> "error"])
    /\ pc' = on_invoke_error("print_with_tool")
    /\ UNCHANGED <<weather_without_tool, weather_with_tool, printed>>
    /\ UNCHANGED toolVars

PrintWithTool ==
    /\ pc = "print_with_tool"
    /\ printed' = Append(printed,
          [label |-> "Response to weather query with tool:",
           response |-> weather_with_tool])
    /\ pc' = "done"
    /\ UNCHANGED <<modelCalls, weather_without_tool, weather_with_tool>>
    /\ UNCHANGED toolVars

(***************************************************************************)
(* Specifications.                                                         *)
(***************************************************************************)
Init ==
    /\ time_diffs = InitialTimeDiffs
    /\ randDraws = 0
    /\ call = NoCall
    /\ pc = "invoke_without_tool"
    /\ modelCalls = <<>>
    /\ weather_without_tool = NoResponse
    /\ weather_with_tool = NoResponse
    /\ printed = <<>>

Temperature == CallTemperature(LocationInputs, Draws)
LocalDatetime == CallLocalDatetime(OffsetInputs, ClockReadings)
OffsetFromUtc == CallOffsetFromUtc(LocationInputs)
ToolsInfo == CallToolsInfo(ToolLists)

Next == Temperature \/ LocalDatetime \/ OffsetFromUtc \/ ToolsInfo

Spec == Init /\ [][Next]_vars

WithoutTool == InvokeWithoutTool(TextResponses)
WithTool == InvokeWithTool(TextResponses \cup ToolCallResponses)

DriverNext ==
    \/ WithoutTool
    \/ InvokeWithoutToolRaises
    \/ PrintWithoutTool
    \/ WithTool
    \/ InvokeWithToolRaises
    \/ PrintWithTool

DriverSpec == Init /\ [][DriverNext]_vars

\* A sample of the arguments, for the runs that interleave tool calls with
\* the driver.
SampleDraws == {0, RandSteps}
SampleOffsets == {-OffsetDen, (TzLimitHours + OverHours) * OffsetDen}
SampleClock == {0}
SampleToolLists == {available_tools}
SampleTexts == { r \in TextResponses : r.content = "" }
SampleToolCalls == { r \in ToolCallResponses : Len(r.tool_calls) = 1 }

LifetimeNext ==
    \/ CallTemperature(LocationInputs, SampleDraws)
    \/ CallLocalDatetime(SampleOffsets, SampleClock)
    \/ CallOffsetFromUtc(LocationInputs)
    \/ CallToolsInfo(SampleToolLists)
    \/ InvokeWithoutTool(SampleTexts)
    \/ InvokeWithoutToolRaises
    \/ PrintWithoutTool
    \/ InvokeWithTool(SampleTexts \cup SampleToolCalls)
    \/ InvokeWithToolRaises
    \/ PrintWithTool

LifetimeSpec == Init /\ [][LifetimeNext]_vars

(***************************************************************************)
(* Properties.                                                             *)
(***************************************************************************)
TabulatedOffset ==
    "Abuja" :> 1 @@ "Accra" :> 0 @@ "Cairo" :> 2 @@ "Dakar" :> 0 @@ "Gaborone" :> 2
      @@ "Kigali" :> 2 @@ "Nairobi" :> 3 @@ "Praia" :> -1 @@ "Pretoria" :> 2

\* The numerals d.d and dd.d of the values 8.0, 8.1, ..., 45.0
OneDecimalNumerals ==
    { ToString(i) \o "." \o ToString(d) : i \in MinTemp .. MaxTemp - 1, d \in 0 .. 9 }
      \cup { ToString(MaxTemp) \o ".0" }

IsTemperatureCall == call.op = "get_location_temperature"

\* C1: utcOffset returns the tabulated offset of every registry location
\* (Praia -> -1) and fails with an error, returning no value, for every
\* location outside the registry (Lagos).
C1_OffsetLookup ==
    call.op = "get_offset_from_utc" =>
        IF call.args.location \in DOMAIN TabulatedOffset
        THEN /\ call.result.status = "returned"
             /\ call.result.ret = Float(TabulatedOffset[call.args.location])
        ELSE /\ call.result.status = "raised"
             /\ call.result.error = "ValueError"
             /\ call.result.ret = NoValue

C1_Witness ==
    /\ call.op = "get_offset_from_utc"
    /\ call.args.location = "Lagos"
    /\ call.result.status = "raised"

\* C2: for a registry location and a unit (Celsius when omitted), every
\* outcome of temperature is "The temperature in <location> is: <v> <units>"
\* with v a one-decimal numeral between 8.0 and 45.0 and the requested label.
C2_TemperatureString ==
    (IsTemperatureCall /\ call.args.location \in DOMAIN TabulatedOffset) =>
        /\ call.result.status = "returned"
        /\ \E v \in OneDecimalNumerals :
              call.result.ret.str =
                "The temperature in " \o call.args.location \o " is: " \o v \o " "
                  \o (IF "units" \in DOMAIN call.args THEN call.args.units
                      ELSE "Celsius")

C2_Witness ==
    /\ IsTemperatureCall
    /\ call.args = [location |-> "Praia", units |-> "Fahrenheit"]
    /\ call.result.ret = Str("The temperature in Praia is: 17.2 Fahrenheit")

\* C3: for a location outside the registry, temperature fails with an error,
\* returns no string, and consumes nothing from the random source.
C3_UnknownLocationNoDraw ==
    (IsTemperatureCall /\ call.args.location \notin DOMAIN TabulatedOffset) =>
        /\ call.result.status = "raised"
        /\ call.result.error = "ValueError"
        /\ call.result.ret = NoValue
        /\ call.result.consumed = 0
        /\ randDraws = call.randBefore

C3_Witness ==
    /\ IsTemperatureCall
    /\ call.args = [location |-> "Lagos", units |-> "Fahrenheit"]
    /\ call.result.status = "raised"
    /\ randDraws = 1

C5_TwoCallsNoRecovery ==
    /\ Len(modelCalls) <= 2
    /\ Len(modelCalls) >= 1 => modelCalls[1].request.bound_tools = <<>>
    /\ Len(modelCalls) = 2 =>
          /\ modelCalls[2].request.bound_tools # <<>>
          /\ modelCalls[1].request.messages[2].content
               = "What's the current weather in Praia?"
          /\ modelCalls[2].request.messages[2].content
               = "What's the current weather in Praia?"
    /\ \A i \in 1 .. Len(modelCalls) :
          modelCalls[i].outcome = "error" =>
              /\ i = Len(modelCalls)
              /\ Len(printed) = i - 1
              /\ pc = "crashed"
    /\ pc = "crashed" => ~ENABLED DriverNext

C5_Witness ==
    /\ pc = "crashed"
    /\ Len(modelCalls) = 1
    /\ modelCalls[1].outcome = "error"
    /\ printed = <<>>

\* C6: when the with-tools response is a sequence of tool invocation
\* requests, the requested tool functions are run and their return values
\* are resubmitted to the model before the answer is reported.
C6_ToolCallsDispatched ==
    (\E i \in 1 .. Len(printed) :
        /\ printed[i].label = "Response to weather query with tool:"
        /\ printed[i].response.tool_calls # <<>>) =>
        /\ call.op \in { r.name : r \in ToolRequests }
        /\ Len(modelCalls) > 2

NamesDistinct(tools_list) ==
    \A i, j \in 1 .. Len(tools_list) :
        tools_list[i].name = tools_list[j].name => i = j

C8_NoUnitConversion ==
    (IsTemperatureCall /\ call.result.status = "returned") =>
        \E v \in OneDecimalNumerals :
            /\ call.result.ret.str =
                 "The temperature in " \o call.args.location \o " is: " \o v \o " "
                   \o UnitsOf(call.args)
            /\ \A u \in TemperatureUnit :
                 get_location_temperature(
                     [location |-> call.args.location, units |-> u],
                     call.random[1]).ret.str
                   = "The temperature in " \o call.args.location \o " is: " \o v
                       \o " " \o u

C8_Witness ==
    /\ IsTemperatureCall
    /\ call.args = [location |-> "Praia", units |-> "Fahrenheit"]
    /\ call.random = <<0>>
    /\ call.result.ret = Str("The temperature in Praia is: 8.0 Fahrenheit")

\* C9: the registry holds the nine initial locations with their initial
\* offsets after any sequence of tool calls and driver steps.
C9_RegistryImmutable ==
    /\ DOMAIN time_diffs = DOMAIN TabulatedOffset
    /\ \A l \in DOMAIN time_diffs : time_diffs[l] = TabulatedOffset[l]

C9_Witness ==
    /\ pc = "done"
    /\ call.op = "get_offset_from_utc"
    /\ call.args.location = "Lagos"
    /\ call.result.status = "raised"

ExpectedDescriptors ==
    "{\n"
    \o "    \"get_location_temperature\": \"Retrieve the temperature in a given African capital city\",\n"
    \o "    \"get_local_datetime\": \"Retrieve the current local datetime in a given timezone\",\n"
    \o "    \"get_offset_from_utc\": \"Get the time offset from UTC for the specified location\"\n"
    \o "}"

\* C10: both driver requests carry the same messages: the system instruction
\* with the serialized descriptors of the three tools and the same question;
\* they differ only in the tools bound to the model.
C10_SamePromptInputs ==
    /\ \A i \in 1 .. Len(modelCalls) :
          /\ modelCalls[i].request.messages[1].content
               = system_message_prompt_template[1] \o ExpectedDescriptors
                   \o system_message_prompt_template[2]
          /\ modelCalls[i].request.messages[2].content
               = "What's the current weather in Praia?"
    /\ Len(modelCalls) = 2 =>
          /\ modelCalls[1].request.messages = modelCalls[2].request.messages
          /\ modelCalls[1].request.bound_tools = <<>>
          /\ modelCalls[2].request.bound_tools
               = <<"get_location_temperature", "get_local_datetime",
                   "get_offset_from_utc">>

C10_Witness ==
    /\ pc = "done"
    /\ Len(modelCalls) = 2
    /\ modelCalls[2].outcome = "response"

====
